---- MODULE Spec2Model ----
(***************************************************************************)
(* A model of src/src/multipart.rs: the multipart/form-data body builder   *)
(* (Multipart), the prepared lazy reader (PreparedFields) and the per-     *)
(* stream field reader (PreparedField).                                    *)
(*                                                                         *)
(* Bytes are one-character strings; a byte string is a sequence of them.   *)
(* Option<T> is modelled as a sequence of length 0 (None) or 1 (Some).     *)
(***************************************************************************)
EXTENDS Integers, Sequences, FiniteSets, TLC

(***************************************************************************)
(* Bounds of the model.                                                    *)
(***************************************************************************)
\* most fields ever added to the Multipart
MaxFields == 2
\* most failing payload sources in the Multipart at a time
MaxFailing == 1
\* small destination buffers are 0..MaxBuf bytes
MaxBuf == 2
\* one destination buffer larger than any body of MaxFields fields
BigBuf == 600

(***************************************************************************)
(* Literals of the source.                                                 *)
(***************************************************************************)
\* multipart.rs:41  .take(16)
TokenLen == 16

\* multipart.rs:38  "\r\n--{}"
CRLF_DASHES == <<"\r", "\n", "-", "-">>

\* multipart.rs:53-54 and :154  "\r\nContent-Disposition: form-data; name=\""
DISPOSITION == <<"\r", "\n", "C", "o", "n", "t", "e", "n", "t", "-", "D", "i", "s", "p", "o", "s", "i", "t", "i", "o", "n", ":", " ", "f", "o", "r", "m", "-", "d", "a", "t", "a", ";", " ", "n", "a", "m", "e", "=", "\"">>

\* multipart.rs:54  "\"\r\n\r\n" (closing quote of the name, then the blank line)
TEXT_SEP == <<"\"", "\r", "\n", "\r", "\n">>

\* multipart.rs:154  the closing quote of name="{}"
QUOTE == <<"\"">>

\* multipart.rs:158  "; filename=\""
FILENAME_OPEN == <<";", " ", "f", "i", "l", "e", "n", "a", "m", "e", "=", "\"">>

\* multipart.rs:161  "\r\nContent-Type: "
CONTENT_TYPE == <<"\r", "\n", "C", "o", "n", "t", "e", "n", "t", "-", "T", "y", "p", "e", ":", " ">>

\* multipart.rs:161  "\r\n\r\n"
HEADER_END == <<"\r", "\n", "\r", "\n">>

\* multipart.rs:73  "--"
DASHES == <<"-", "-">>

\* multipart.rs:28  mime::APPLICATION_OCTET_STREAM, as Display renders it
APPLICATION_OCTET_STREAM == <<"a", "p", "p", "l", "i", "c", "a", "t", "i", "o", "n", "/", "o", "c", "t", "e", "t", "-", "s", "t", "r", "e", "a", "m">>

(***************************************************************************)
(* The inputs the actions draw from.                                       *)
(***************************************************************************)
None == <<>>

Some(x) == <<x>>

\* the alphanumeric tokens rand::thread_rng() produces in the model
Tokens ==
  { <<"q", "7", "X", "b", "2", "m", "K", "9", "a", "Z", "0", "c", "R", "4", "t", "Y">> }

Names == { <<"a">> }

TextValues == { <<>>, <<"h", "e", "l", "l", "o">> }

\* the optional filename and mime type passed to add_stream: neither, or both
StreamMetas ==
  { [filename |-> None, mime |-> None],
    [filename |-> Some(<<"f">>),
     mime |-> Some(<<"t", "e", "x", "t", "/", "p", "l", "a", "i", "n">>)] }

\* A payload source (Box<dyn Read>): its bytes, how many were pulled, the
\* positions at which it answers one read with Ok(0) although bytes follow
\* (zeros), and the positions at which it answers one read with Err (errs).
Source(data, zeros, errs) ==
  [data |-> data, pos |-> 0, zeros |-> zeros, errs |-> errs]

\* sources that never fail: empty, two bytes, two bytes with a zero-byte
\* read between them
ReliableSources ==
  { Source(<<>>, {}, {}),
    Source(<<"x", "y">>, {}, {}),
    Source(<<"x", "y">>, {1}, {}) }

\* a source that fails once, after its first byte, and then goes on
FailingSources == { Source(<<"x", "y">>, {}, {1}) }

\* the two-byte source that never fails nor stops early
PlainSources == { Source(<<"x", "y">>, {}, {}) }

Min(a, b) == IF a < b THEN a ELSE b

(***************************************************************************)
(* std::io::Cursor over a byte buffer.                                     *)
(***************************************************************************)
Cursor(buf) == [buf |-> buf, pos |-> 0]

\* multipart.rs:177-179
cursor_at_end(cursor) == cursor.pos = Len(cursor.buf)

\* Cursor::read: copies min(n, remaining) bytes and advances; never fails
CursorRead(cursor, n) ==
  LET k == Min(n, Len(cursor.buf) - cursor.pos)
  IN  [bytes  |-> SubSeq(cursor.buf, cursor.pos + 1, cursor.pos + k),
       cursor |-> [cursor EXCEPT !.pos = cursor.pos + k]]

(***************************************************************************)
(* A payload source's read(buf) with a buffer of n bytes: the set of       *)
(* results it may give.  A short read returns any count of 1..n bytes,     *)
(* and never runs past a position where the source stops or fails.         *)
(***************************************************************************)
SourceLimit(s) ==
  LET stops == {p \in (s.zeros \cup s.errs) : p > s.pos}
  IN  IF stops = {} THEN Len(s.data)
      ELSE CHOOSE p \in stops : \A q \in stops : p <= q

SourceRead(s, n) ==
  IF s.pos \in s.errs
    THEN {[ok |-> FALSE, bytes |-> <<>>,
           stream |-> [s EXCEPT !.errs = s.errs \ {s.pos}]]}
  ELSE IF s.pos \in s.zeros
    THEN {[ok |-> TRUE, bytes |-> <<>>,
           stream |-> [s EXCEPT !.zeros = s.zeros \ {s.pos}]]}
  ELSE IF n = 0 \/ s.pos = Len(s.data)
    THEN {[ok |-> TRUE, bytes |-> <<>>, stream |-> s]}
  ELSE {[ok |-> TRUE,
         bytes |-> SubSeq(s.data, s.pos + 1, s.pos + k),
         stream |-> [s EXCEPT !.pos = s.pos + k]]
          : k \in 1..Min(n, SourceLimit(s) - s.pos)}

(***************************************************************************)
(* PreparedField (multipart.rs:139-175).  id is the field's index in the   *)
(* field list prepare() drained; the code does not store it.               *)
(***************************************************************************)
\* from_stream reading the payload's first byte when the field is built
from_stream_Peek(name, boundary, content_type, filename, stream, id) ==
  LET h1 == boundary \o DISPOSITION \o name \o QUOTE
      h2 == IF filename # None
              THEN h1 \o FILENAME_OPEN \o filename[1] \o QUOTE
              ELSE h1
      h3 == h2 \o CONTENT_TYPE \o content_type \o HEADER_END
  IN  [header |-> Cursor(h3),
       stream |-> [stream EXCEPT !.pos = Min(1, Len(stream.data))],
       id |-> id]

\* multipart.rs:145-164
from_stream(name, boundary, content_type, filename, stream, id) ==
  LET h1 == boundary \o DISPOSITION \o name \o QUOTE
      h2 == IF filename # None
              THEN h1 \o FILENAME_OPEN \o filename[1] \o QUOTE
              ELSE h1
      h3 == h2 \o CONTENT_TYPE \o content_type \o HEADER_END
  IN  [header |-> Cursor(h3), stream |-> stream, id |-> id]

\* field.read that serves the header on the field's first read only
PreparedFieldRead_HeaderOnce(field, n) ==
  IF field.header.pos = 0 /\ ~cursor_at_end(field.header)
    THEN LET c == CursorRead(field.header, n)
         IN  {[ok |-> TRUE, bytes |-> c.bytes, part |-> "header",
               field |-> [field EXCEPT !.header = c.cursor]]}
    ELSE {[ok |-> o.ok, bytes |-> o.bytes, part |-> "payload",
           field |-> [field EXCEPT !.stream = o.stream]]
            : o \in SourceRead(field.stream, n)}

\* multipart.rs:167-175: the set of results of field.read(buf), |buf| = n
PreparedFieldRead(field, n) ==
  IF ~cursor_at_end(field.header)
    THEN LET c == CursorRead(field.header, n)
         IN  {[ok |-> TRUE, bytes |-> c.bytes, part |-> "header",
               field |-> [field EXCEPT !.header = c.cursor]]}
    ELSE {[ok |-> o.ok, bytes |-> o.bytes, part |-> "payload",
           field |-> [field EXCEPT !.stream = o.stream]]
            : o \in SourceRead(field.stream, n)}

(***************************************************************************)
(* Multipart (multipart.rs:7-82).                                          *)
(***************************************************************************)
\* multipart.rs:17: (name, Data::Text(text)); the Stream members are unused
TextField(name, text) ==
  [name |-> name, kind |-> "Text", text |-> text,
   filename |-> None, content_type |-> <<>>, stream |-> Source(<<>>, {}, {}),
   mime |-> None]

\* add_stream with the defaulting of the content type left out
StreamField_NoDefault(name, stream, filename, mime) ==
  [name |-> name, kind |-> "Stream", text |-> <<>>,
   filename |-> filename,
   content_type |-> IF mime = None THEN <<>> ELSE mime[1],
   stream |-> stream, mime |-> mime]

\* multipart.rs:27-32: (name, Data::Stream(Stream {..})).  mime records the
\* argument as passed; the code keeps only content_type.
StreamField(name, stream, filename, mime) ==
  [name |-> name, kind |-> "Stream", text |-> <<>>,
   filename |-> filename,
   content_type |-> IF mime = None THEN APPLICATION_OCTET_STREAM ELSE mime[1],
   stream |-> stream, mime |-> mime]

\* multipart.rs:49-57: the text block after the first i fields
RECURSIVE text_data_of(_, _, _)
text_data_of(fs, boundary, i) ==
  IF i = 0 THEN <<>>
  ELSE LET rest == text_data_of(fs, boundary, i - 1)
       IN  IF fs[i].kind = "Text"
             THEN rest \o boundary \o DISPOSITION \o fs[i].name
                       \o TEXT_SEP \o fs[i].text
             ELSE rest

\* multipart.rs:49-50, 58-66: the streams vector after the first i fields
RECURSIVE streams_of(_, _, _)
streams_of(fs, boundary, i) ==
  IF i = 0 THEN <<>>
  ELSE LET rest == streams_of(fs, boundary, i - 1)
       IN  IF fs[i].kind = "Stream"
             THEN Append(rest, from_stream(fs[i].name, boundary,
                                           fs[i].content_type, fs[i].filename,
                                           fs[i].stream, i))
             ELSE rest

\* prepare() without the test for an empty field set
prepare_AlwaysTail(fs, token) ==
  LET boundary  == CRLF_DASHES \o token
  IN  [text_data    |-> Cursor(text_data_of(fs, boundary, Len(fs))),
       streams      |-> streams_of(fs, boundary, Len(fs)),
       end_boundary |-> Cursor(boundary \o DASHES)]

\* multipart.rs:35-81: the PreparedFields built from the fields and the token
prepare(fs, token) ==
  LET boundary  == CRLF_DASHES \o token
      text_data == text_data_of(fs, boundary, Len(fs))
      streams   == streams_of(fs, boundary, Len(fs))
      end_b     == IF text_data = <<>> /\ streams = <<>>
                     THEN <<>>
                     ELSE boundary \o DASHES
  IN  [text_data    |-> Cursor(text_data),
       streams      |-> streams,
       end_boundary |-> Cursor(end_b)]

(***************************************************************************)
(* PreparedFields (multipart.rs:95-137).                                   *)
(***************************************************************************)
\* boundary() with the slice ending one byte late
boundary_of_Long(r) ==
  LET b == r.end_boundary.buf
  IN  IF Len(b) < 2 \/ 4 > Len(b) - 2
        THEN [panic |-> TRUE, value |-> <<>>]
        ELSE [panic |-> FALSE, value |-> SubSeq(b, 5, Len(b) - 1)]

\* multipart.rs:102-106: &boundary[4..boundary.len() - 2].  On the empty
\* marker boundary.len() - 2 underflows usize: a build with overflow checks
\* panics at the subtraction, a build without them wraps to 2^64 - 2 and the
\* slice's range check panics.  Both outcomes are the panic.
boundary_of(r) ==
  LET b == r.end_boundary.buf
  IN  IF Len(b) < 2 \/ 4 > Len(b) - 2
        THEN [panic |-> TRUE, value |-> <<>>]
        ELSE [panic |-> FALSE, value |-> SubSeq(b, 5, Len(b) - 2)]

Tag(bytes, kind, id) ==
  [i \in 1..Len(bytes) |-> [b |-> bytes[i], kind |-> kind, id |-> id]]

Sub(part, id, ok, k) == [part |-> part, id |-> id, ok |-> ok, k |-> k]

\* a loop that ends as soon as the buffer holds a byte
LoopContinues_OneShot(r, n, written) ==
  written = <<>> /\ Len(written) < n /\ ~cursor_at_end(r.end_boundary)

\* multipart.rs:117: the loop's condition, with the bytes written so far
LoopContinues(r, n, written) ==
  Len(written) < n /\ ~cursor_at_end(r.end_boundary)

\* the loop's body serving the stream fields before the text block
NextPiece_StreamsFirst(r) ==
  IF r.streams # <<>> THEN "stream"
  ELSE IF ~cursor_at_end(r.text_data) THEN "text"
  ELSE "tail"

\* the loop's body leaving the last queued stream field unserved
NextPiece_SkipLast(r) ==
  IF ~cursor_at_end(r.text_data) THEN "text"
  ELSE IF Len(r.streams) > 1 THEN "stream"
  ELSE "tail"

\* multipart.rs:120, 122, 130: the piece the loop's body reads from
NextPiece(r) ==
  IF ~cursor_at_end(r.text_data) THEN "text"
  ELSE IF r.streams # <<>> THEN "stream"
  ELSE "tail"

\* a pop that takes the first element of the vector
PopField_Front(streams) ==
  [field |-> streams[1],
   rest  |-> SubSeq(streams, 2, Len(streams))]

\* multipart.rs:122: self.streams.pop() takes the last element of the vector
PopField(streams) ==
  [field |-> streams[Len(streams)],
   rest  |-> SubSeq(streams, 1, Len(streams) - 1)]

\* a read that reports an error when it has no byte to return
ReadResult_ErrOnEmpty(r, written, subs) ==
  [ok |-> Len(written) > 0, count |-> Len(written), reader |-> r,
   written |-> written, subs |-> subs]

\* a read that returns the count of its latest sub-read instead of the total
ReadResult_LastCount(r, written, subs) ==
  [ok |-> TRUE,
   count |-> IF subs = <<>> THEN 0 ELSE subs[Len(subs)].k,
   reader |-> r, written |-> written, subs |-> subs]

\* multipart.rs:135: Ok(total_read)
ReadResult(r, written, subs) ==
  [ok |-> TRUE, count |-> Len(written), reader |-> r,
   written |-> written, subs |-> subs]

\* multipart.rs:129: the ? on a field's Err: the call returns the error, and
\* the count of the bytes already placed in the buffer is not returned
ReadError(r, written, subs) ==
  [ok |-> FALSE, count |-> 0, reader |-> r,
   written |-> written, subs |-> subs]

\* multipart.rs:115-135: the loop, from the state r with the bytes `written`
\* in a buffer of n, after the sub-reads subs.  The set of results: ok and
\* count as returned, the reader afterwards, the bytes placed in the buffer
\* (each tagged with the piece it came from), the sub-reads made.
RECURSIVE ReadLoop(_, _, _, _)
RECURSIVE LoopBody(_, _, _, _)
\* an iteration that pushes the field back only after an Ok
LoopBody_DropOnError(r, n, written, subs) ==
  LET room == n - Len(written) IN
  IF NextPiece(r) = "text" THEN
    LET c == CursorRead(r.text_data, room)
    IN  ReadLoop([r EXCEPT !.text_data = c.cursor], n,
                 written \o Tag(c.bytes, "text", 0),
                 Append(subs, Sub("text", 0, TRUE, Len(c.bytes))))
  ELSE IF NextPiece(r) = "stream" THEN
    LET p == PopField(r.streams)
    IN  UNION {
          LET s == Sub(o.part, p.field.id, o.ok, Len(o.bytes)) IN
          IF o.ok /\ o.bytes = <<>>
            THEN \* Ok(0) => continue: the popped field is not pushed back
                 ReadLoop([r EXCEPT !.streams = p.rest], n, written,
                          Append(subs, s))
          ELSE IF o.ok
            THEN ReadLoop([r EXCEPT !.streams = Append(p.rest, o.field)], n,
                          written \o Tag(o.bytes, "stream", p.field.id),
                          Append(subs, s))
            ELSE {ReadError([r EXCEPT !.streams = p.rest],
                            written, Append(subs, s))}
          : o \in PreparedFieldRead(p.field, room) }
  ELSE
    LET c == CursorRead(r.end_boundary, room)
    IN  ReadLoop([r EXCEPT !.end_boundary = c.cursor], n,
                 written \o Tag(c.bytes, "tail", 0),
                 Append(subs, Sub("tail", 0, TRUE, Len(c.bytes))))

\* an iteration that, on Ok(0), keeps a field whose source still has data
LoopBody_RetryOnZero(r, n, written, subs) ==
  LET room == n - Len(written) IN
  IF NextPiece(r) = "text" THEN
    LET c == CursorRead(r.text_data, room)
    IN  ReadLoop([r EXCEPT !.text_data = c.cursor], n,
                 written \o Tag(c.bytes, "text", 0),
                 Append(subs, Sub("text", 0, TRUE, Len(c.bytes))))
  ELSE IF NextPiece(r) = "stream" THEN
    LET p == PopField(r.streams)
    IN  UNION {
          LET s == Sub(o.part, p.field.id, o.ok, Len(o.bytes)) IN
          IF o.ok /\ o.bytes = <<>>
            THEN ReadLoop([r EXCEPT !.streams =
                             IF o.field.stream.pos < Len(o.field.stream.data)
                               THEN Append(p.rest, o.field)
                               ELSE p.rest],
                          n, written, Append(subs, s))
          ELSE IF o.ok
            THEN ReadLoop([r EXCEPT !.streams = Append(p.rest, o.field)], n,
                          written \o Tag(o.bytes, "stream", p.field.id),
                          Append(subs, s))
            ELSE {ReadError([r EXCEPT !.streams = Append(p.rest, o.field)],
                            written, Append(subs, s))}
          : o \in PreparedFieldRead(p.field, room) }
  ELSE
    LET c == CursorRead(r.end_boundary, room)
    IN  ReadLoop([r EXCEPT !.end_boundary = c.cursor], n,
                 written \o Tag(c.bytes, "tail", 0),
                 Append(subs, Sub("tail", 0, TRUE, Len(c.bytes))))

\* multipart.rs:118-132: one iteration
LoopBody(r, n, written, subs) ==
  LET room == n - Len(written) IN
  IF NextPiece(r) = "text" THEN
    LET c == CursorRead(r.text_data, room)
    IN  ReadLoop([r EXCEPT !.text_data = c.cursor], n,
                 written \o Tag(c.bytes, "text", 0),
                 Append(subs, Sub("text", 0, TRUE, Len(c.bytes))))
  ELSE IF NextPiece(r) = "stream" THEN
    LET p == PopField(r.streams)
    IN  UNION {
          LET s == Sub(o.part, p.field.id, o.ok, Len(o.bytes)) IN
          IF o.ok /\ o.bytes = <<>>
            THEN \* Ok(0) => continue: the popped field is not pushed back
                 ReadLoop([r EXCEPT !.streams = p.rest], n, written,
                          Append(subs, s))
          ELSE IF o.ok
            THEN ReadLoop([r EXCEPT !.streams = Append(p.rest, o.field)], n,
                          written \o Tag(o.bytes, "stream", p.field.id),
                          Append(subs, s))
            ELSE {ReadError([r EXCEPT !.streams = Append(p.rest, o.field)],
                            written, Append(subs, s))}
          : o \in PreparedFieldRead(p.field, room) }
  ELSE
    LET c == CursorRead(r.end_boundary, room)
    IN  ReadLoop([r EXCEPT !.end_boundary = c.cursor], n,
                 written \o Tag(c.bytes, "tail", 0),
                 Append(subs, Sub("tail", 0, TRUE, Len(c.bytes))))

ReadLoop(r, n, written, subs) ==
  IF LoopContinues(r, n, written)
    THEN LoopBody(r, n, written, subs)
    ELSE {ReadResult(r, written, subs)}

\* a read without the early return, its loop testing the condition after
\* the body instead of before it
PreparedFieldsRead_DoWhile(r, n) == LoopBody(r, n, <<>>, <<>>)

\* multipart.rs:110-136: PreparedFields::read with a buffer of n bytes
PreparedFieldsRead(r, n) ==
  IF n = 0
    THEN {ReadResult(r, <<>>, <<>>)}
    ELSE ReadLoop(r, n, <<>>, <<>>)

(***************************************************************************)
(* The state.                                                              *)
(***************************************************************************)
VARIABLES
  fields,     \* Multipart.fields
  reader,     \* the PreparedFields of the latest prepare()
  phase,      \* "building" before the first prepare(), then "prepared";
              \* "panicked" after a panic
  token,      \* the random token the latest prepare() generated
  fields0,    \* the fields the latest prepare() drained
  reader0,    \* the reader as the latest prepare() returned it
  out,        \* the bytes successful read calls reported, tagged
  last,       \* the latest call on the reader and what it returned
  nAdded      \* add_text / add_stream calls so far

vars == <<fields, reader, phase, token, fields0, reader0, out, last, nAdded>>

NoCall == [op |-> "none", n |-> 0, ok |-> TRUE, count |-> 0,
           subs |-> <<>>, value |-> <<>>]

Init ==
  /\ fields = <<>>
  /\ reader = prepare(<<>>, <<>>)
  /\ phase = "building"
  /\ token = <<>>
  /\ fields0 = <<>>
  /\ reader0 = prepare(<<>>, <<>>)
  /\ out = <<>>
  /\ last = NoCall
  /\ nAdded = 0

\* multipart.rs:16-18
add_text(name, text) ==
  /\ phase # "panicked"
  /\ nAdded < MaxFields
  /\ fields' = Append(fields, TextField(name, text))
  /\ nAdded' = nAdded + 1
  /\ UNCHANGED <<reader, phase, token, fields0, reader0, out, last>>

\* multipart.rs:20-33
add_stream(name, stream, filename, mime) ==
  /\ phase # "panicked"
  /\ nAdded < MaxFields
  /\ fields' = Append(fields, StreamField(name, stream, filename, mime))
  /\ nAdded' = nAdded + 1
  /\ UNCHANGED <<reader, phase, token, fields0, reader0, out, last>>

\* a prepare() that iterates the fields without draining them
Prepare_NoDrain(t) ==
  /\ phase # "panicked"
  /\ reader' = prepare(fields, t)
  /\ reader0' = prepare(fields, t)
  /\ fields0' = fields
  /\ token' = t
  /\ phase' = "prepared"
  /\ out' = <<>>
  /\ last' = NoCall
  /\ UNCHANGED <<fields, nAdded>>

\* multipart.rs:35-81: drains the fields and returns a new reader
Prepare(t) ==
  /\ phase # "panicked"
  /\ reader' = prepare(fields, t)
  /\ reader0' = prepare(fields, t)
  /\ fields0' = fields
  /\ fields' = <<>>
  /\ token' = t
  /\ phase' = "prepared"
  /\ out' = <<>>
  /\ last' = NoCall
  /\ UNCHANGED nAdded

\* multipart.rs:110-136: one read call with a destination of n bytes
Read(n) ==
  /\ phase = "prepared"
  /\ \E o \in PreparedFieldsRead(reader, n) :
       /\ reader' = o.reader
       /\ out' = IF o.ok THEN out \o o.written ELSE out
       /\ last' = [op |-> "read", n |-> n, ok |-> o.ok, count |-> o.count,
                   subs |-> o.subs, value |-> <<>>]
  /\ UNCHANGED <<fields, phase, token, fields0, reader0, nAdded>>

\* multipart.rs:102-106: the boundary() accessor
Boundary ==
  /\ phase = "prepared"
  /\ LET b == boundary_of(reader)
     IN  /\ phase' = IF b.panic THEN "panicked" ELSE phase
         /\ last' = [op |-> "boundary", n |-> 0, ok |-> ~b.panic, count |-> 0,
                     subs |-> <<>>, value |-> b.value]
  /\ UNCHANGED <<fields, reader, token, fields0, reader0, out, nAdded>>

BufSizes == (0..MaxBuf) \cup {BigBuf}

AddText == \E name \in Names, text \in TextValues : add_text(name, text)

AddStream ==
  \E name \in Names, stream \in ReliableSources, meta \in StreamMetas :
       add_stream(name, stream, meta.filename, meta.mime)

DoPrepare == \E t \in Tokens : Prepare(t)

DoRead == \E n \in BufSizes : Read(n)

Next == AddText \/ AddStream \/ DoPrepare \/ DoRead \/ Boundary

Spec == Init /\ [][Next]_vars

\* The consumer goes on calling read with non-empty buffers: such a call is
\* not put off for ever.  boundary() and reads with an empty buffer, which
\* leave the reader as it is, are left out of this specification.
ReadNonEmpty == \E n \in BufSizes \ {0} : Read(n)

NextLive == AddText \/ AddStream \/ DoPrepare \/ ReadNonEmpty

LiveSpec == Init /\ [][NextLive]_vars /\ WF_vars(ReadNonEmpty)

\* The same program with a payload source that may report an error.  To keep
\* the reachable states few, the streams of this specification carry neither
\* filename nor mime type, and at most MaxFailing of them fail.
NumFailing(fs) ==
  Cardinality({i \in 1..Len(fs) : fs[i].kind = "Stream" /\ fs[i].stream.errs # {}})

AddPlainStream ==
  \E name \in Names, stream \in PlainSources :
       add_stream(name, stream, None, None)

AddFailingStream ==
  /\ NumFailing(fields) < MaxFailing
  /\ \E name \in Names, stream \in FailingSources :
       add_stream(name, stream, None, None)

NextErr ==
  AddText \/ AddPlainStream \/ AddFailingStream \/ DoPrepare \/ DoRead \/ Boundary

SpecErr == Init /\ [][NextErr]_vars

(***************************************************************************)
(* The wire format as the specification states it, written out             *)
(* independently of the definitions above.                                 *)
(***************************************************************************)
WireDelimiter == <<"\r", "\n", "-", "-">>

WireDisposition ==
  <<"\r", "\n", "C", "o", "n", "t", "e", "n", "t", "-", "D", "i", "s", "p", "o", "s", "i", "t", "i", "o", "n", ":", " ", "f", "o", "r", "m", "-", "d", "a", "t", "a", ";", " ", "n", "a", "m", "e", "=", "\"">>

WireQuote == <<"\"">>

WireBlankLine == <<"\r", "\n", "\r", "\n">>

WireFilename == <<";", " ", "f", "i", "l", "e", "n", "a", "m", "e", "=", "\"">>

WireContentType ==
  <<"\r", "\n", "C", "o", "n", "t", "e", "n", "t", "-", "T", "y", "p", "e", ":", " ">>

WireOctetStream ==
  <<"a", "p", "p", "l", "i", "c", "a", "t", "i", "o", "n", "/", "o", "c", "t", "e", "t", "-", "s", "t", "r", "e", "a", "m">>

WireClose == <<"-", "-">>

\* \r\n--B\r\nContent-Disposition: form-data; name="<name>"\r\n\r\n<value>
WireTextPart(B, name, value) ==
  WireDelimiter \o B \o WireDisposition \o name \o WireQuote
    \o WireBlankLine \o value

\* \r\n--B\r\nContent-Disposition: form-data; name="<name>"
\* [; filename="<filename>"]\r\nContent-Type: <type>\r\n\r\n
WireStreamHeader(B, name, filename, mime) ==
  WireDelimiter \o B \o WireDisposition \o name \o WireQuote
    \o (IF filename # None THEN WireFilename \o filename[1] \o WireQuote
        ELSE <<>>)
    \o WireContentType
    \o (IF mime # None THEN mime[1] ELSE WireOctetStream)
    \o WireBlankLine

\* \r\n--B--
WireTail(B) == WireDelimiter \o B \o WireClose

\* a payload source's bytes up to its first zero-byte read
UpToFirstZero(s) ==
  LET stops == s.zeros \cup {Len(s.data)}
  IN  SubSeq(s.data, 1, CHOOSE p \in stops : \A q \in stops : p <= q)

\* one field as the wire format renders it
WirePart(B, f) ==
  IF f.kind = "Text"
    THEN WireTextPart(B, f.name, f.text)
    ELSE WireStreamHeader(B, f.name, f.filename, f.mime)
           \o UpToFirstZero(f.stream)

\* the first i fields of fs, each rendered, in the order of fs
RECURSIVE WireParts(_, _, _)
WireParts(B, fs, i) ==
  IF i = 0 THEN <<>> ELSE WireParts(B, fs, i - 1) \o WirePart(B, fs[i])

(***************************************************************************)
(* What the formulas below read off the state.                             *)
(***************************************************************************)
Bytes(tagged) == [i \in 1..Len(tagged) |-> tagged[i].b]

OutBytes == Bytes(out)

IsPrefix(s, t) == Len(s) <= Len(t) /\ s = SubSeq(t, 1, Len(s))

\* the tail is fully consumed: every later read reports end-of-data
Exhausted == phase = "prepared" /\ reader.end_boundary.pos = Len(reader.end_boundary.buf)

\* the fields the reader was prepared from, by kind
IsText(i) == fields0[i].kind = "Text"

IsStream(i) == fields0[i].kind = "Stream"

OnlyText == \A i \in 1..Len(fields0) : IsText(i)

HasText == \E i \in 1..Len(fields0) : IsText(i)

HasStream == \E i \in 1..Len(fields0) : IsStream(i)

\* the bytes reported so far that came from the stream field with index id
FieldOut(id) ==
  Bytes(SelectSeq(out, LAMBDA e : e.kind = "stream" /\ e.id = id))

\* the stream field with index id is still in the reader's queue
Queued(id) == \E j \in 1..Len(reader.streams) : reader.streams[j].id = id

\* the token the accessor returns for the current reader
B == boundary_of(reader).value

(***************************************************************************)
(* C1  Chunking-invariance.  With payload sources that are finite and      *)
(* never fail, a body drained to end-of-data by any sequence of read calls *)
(* (buffers of 1, 2, ... bytes or one huge buffer, with any short reads of *)
(* the payload sources) is byte for byte the body that one read call with  *)
(* a buffer larger than the body returns from the freshly prepared reader. *)
(***************************************************************************)
ChunkingInvariance ==
  Exhausted =>
    \A o \in PreparedFieldsRead(reader0, BigBuf) :
      /\ o.ok
      /\ o.count < BigBuf
      /\ OutBytes = Bytes(o.written)

\* a two-field body with a payload was drained, the last call a 1-byte read
ChunkingWitness ==
  /\ Exhausted
  /\ Len(fields0) = 2
  /\ \E i \in 1..2 : IsStream(i) /\ Len(fields0[i].stream.data) = 2
                        /\ fields0[i].stream.zeros = {}
  /\ last.op = "read" /\ last.n = 1 /\ last.count = 1

(***************************************************************************)
(* C2  A body of text fields only, fully drained, is the concatenation in  *)
(* insertion order of \r\n--B\r\nContent-Disposition: form-data;           *)
(* name="<name>"\r\n\r\n<value> for each field, followed by \r\n--B-- and  *)
(* nothing more, where B is what boundary() returns on the reader; for the *)
(* single field ("a", "hello") it is the literal body of the example.      *)
(***************************************************************************)
TextOnlyBody ==
  (Exhausted /\ OnlyText /\ fields0 # <<>>) =>
    /\ ~boundary_of(reader).panic
    /\ Len(B) = TokenLen
    /\ OutBytes = WireParts(B, fields0, Len(fields0)) \o WireTail(B)
    /\ fields0 = <<TextField(<<"a">>, <<"h", "e", "l", "l", "o">>)>> =>
         OutBytes = <<"\r", "\n", "-", "-">> \o B \o
           <<"\r", "\n", "C", "o", "n", "t", "e", "n", "t", "-", "D", "i", "s", "p", "o", "s", "i", "t", "i", "o", "n", ":", " ", "f", "o", "r", "m", "-", "d", "a", "t", "a", ";", " ", "n", "a", "m", "e", "=", "\"", "a", "\"", "\r", "\n", "\r", "\n", "h", "e", "l", "l", "o", "\r", "\n", "-", "-">>
           \o B \o <<"-", "-">>

\* two text fields of the same name and different values were drained
TextOnlyWitness ==
  /\ Exhausted
  /\ Len(fields0) = 2 /\ OnlyText
  /\ fields0[1].name = fields0[2].name
  /\ fields0[1].text # fields0[2].text
  /\ Len(out) > 0

(***************************************************************************)
(* C3  The bytes the body emits for a stream field are the header          *)
(* \r\n--B\r\nContent-Disposition: form-data; name="<name>", then          *)
(* ; filename="<filename>" exactly when a filename was supplied, then      *)
(* \r\nContent-Type: <type>\r\n\r\n (application/octet-stream when no type *)
(* was supplied), then the payload's bytes in order up to the source's     *)
(* first zero-byte read.  While the header is not consumed the field is    *)
(* served from the header only; afterwards from the payload source.        *)
(***************************************************************************)
StreamFieldBytes ==
  phase = "prepared" =>
    \A i \in 1..Len(fields0) :
      IsStream(i) =>
        LET f      == fields0[i]
            header == WireStreamHeader(B, f.name, f.filename, f.mime)
            whole  == header \o UpToFirstZero(f.stream)
            got    == FieldOut(i)
        IN  /\ IsPrefix(got, whole)
            /\ ~Queued(i) => got = whole
            /\ \A j \in 1..Len(reader.streams) :
                 reader.streams[j].id = i =>
                   LET q == reader.streams[j]
                   IN  /\ Len(got) = q.header.pos + q.stream.pos
                       /\ q.header.pos <= Len(header)
                       /\ q.stream.pos > 0 => q.header.pos = Len(header)

\* a stream field with a filename and one without were both emitted whole,
\* one of them with a source that stops before its last byte
StreamFieldWitness ==
  /\ Exhausted
  /\ Len(fields0) = 2 /\ IsStream(1) /\ IsStream(2)
  /\ fields0[1].filename = None /\ fields0[2].filename # None
  /\ fields0[1].stream.zeros # {}
  /\ Len(FieldOut(1)) > 0 /\ Len(FieldOut(2)) > 0

(***************************************************************************)
(* C4  In a body with text and stream fields, whatever the order of        *)
(* registration and the sizes of the read buffers, the whole text block is *)
(* emitted before the first byte of any stream field, and the tail         *)
(* \r\n--B-- is emitted after every other byte: it ends the drained body.  *)
(***************************************************************************)
Rank(e) == IF e.kind = "text" THEN 1 ELSE IF e.kind = "stream" THEN 2 ELSE 3

TextThenStreamsThenTail ==
  (phase = "prepared" /\ HasText /\ HasStream) =>
    LET nText == Len(reader0.text_data.buf)
        nTail == Len(WireTail(B))
    IN  /\ \A i \in 1..(Len(out) - 1) : Rank(out[i]) <= Rank(out[i + 1])
        /\ \A i \in 1..Len(out) :
             out[i].kind # "text" =>
               /\ i > nText
               /\ SubSeq(OutBytes, 1, nText) = reader0.text_data.buf
        /\ Exhausted =>
             /\ Len(out) >= nTail
             /\ SubSeq(OutBytes, Len(out) - nTail + 1, Len(out)) = WireTail(B)
             /\ \A i \in 1..Len(out) :
                  out[i].kind = "tail" <=> i > Len(out) - nTail

\* a stream field registered before a text field, drained with small reads
TextFirstWitness ==
  /\ Exhausted
  /\ Len(fields0) = 2 /\ IsStream(1) /\ IsText(2)
  /\ Len(fields0[2].text) > 0
  /\ Len(FieldOut(1)) > 0
  /\ last.op = "read" /\ last.n = 2

(***************************************************************************)
(* C5  Insertion order is preserved: the fully drained body renders the    *)
(* fields in exactly the order of the add_text / add_stream calls, for any *)
(* mix of text and stream fields, and then the tail.                       *)
(***************************************************************************)
InsertionOrderPreserved ==
  (Exhausted /\ fields0 # <<>>) =>
    OutBytes = WireParts(B, fields0, Len(fields0)) \o WireTail(B)

(***************************************************************************)
(* C6  With two or more stream fields the reader serves them as a stack:   *)
(* the stream fields appear in the body in the reverse of their            *)
(* registration order, the most recently registered first, each emitted    *)
(* whole (header and payload) before the next begins, all of them after    *)
(* the text block and before the tail.                                     *)
(***************************************************************************)
StreamIds == {i \in 1..Len(fields0) : IsStream(i)}

WholeField(i) ==
  WireStreamHeader(B, fields0[i].name, fields0[i].filename, fields0[i].mime)
    \o UpToFirstZero(fields0[i].stream)

StreamsServedAsStack ==
  (phase = "prepared" /\ Cardinality(StreamIds) >= 2) =>
    /\ \A k \in 1..(Len(out) - 1) :
         /\ Rank(out[k]) <= Rank(out[k + 1])
         /\ (out[k].kind = "stream" /\ out[k + 1].kind = "stream") =>
              out[k].id >= out[k + 1].id
    /\ \A i \in StreamIds :
         FieldOut(i) # <<>> =>
           \A j \in StreamIds :
             j > i => (~Queued(j) /\ FieldOut(j) = WholeField(j))
    /\ \A i \in StreamIds :
         (Queued(i) /\ FieldOut(i) = <<>>) =>
           \A j \in StreamIds : j < i => (Queued(j) /\ FieldOut(j) = <<>>)
    /\ Exhausted => \A i \in StreamIds : FieldOut(i) = WholeField(i)

\* two stream fields with different payloads were drained by one read call
StackWitness ==
  /\ Exhausted
  /\ Len(fields0) = 2 /\ IsStream(1) /\ IsStream(2)
  /\ fields0[1].stream.data # fields0[2].stream.data
  /\ Len(FieldOut(1)) > 0 /\ Len(FieldOut(2)) > 0
  /\ last.op = "read" /\ last.n = BigBuf /\ last.count = Len(out)

(***************************************************************************)
(* C7  prepare() on a field set with no field yields a reader with an      *)
(* empty tail: every read call, with any buffer, returns 0 without error,  *)
(* and the body is empty.  With at least one field the tail is \r\n--B--.  *)
(***************************************************************************)
EmptyFieldSetEmptyBody ==
  phase = "prepared" =>
    /\ fields0 = <<>> =>
         /\ reader.end_boundary.buf = <<>>
         /\ out = <<>>
         /\ last.op = "read" => (last.ok /\ last.count = 0)
    /\ fields0 # <<>> => reader.end_boundary.buf = WireTail(token)

\* the reader of an empty field set was read with the huge buffer
EmptyBodyWitness ==
  /\ phase = "prepared"
  /\ fields0 = <<>>
  /\ last.op = "read" /\ last.n = BigBuf

(***************************************************************************)
(* C8  On the reader of an empty field set boundary() completes normally   *)
(* and returns the 16-character token that prepare() generated.            *)
(***************************************************************************)
BoundaryOfEmptyReturnsToken ==
  (fields0 = <<>> /\ last.op = "boundary") =>
    /\ phase = "prepared"
    /\ last.ok
    /\ last.value = token
    /\ Len(last.value) = TokenLen

(***************************************************************************)
(* C9  Exhaustion is sticky: once the tail is fully consumed, every read   *)
(* call, with any buffer, returns 0 and no error, makes no sub-read (so    *)
(* reads from no source) and leaves the reader as it was.                  *)
(***************************************************************************)
ExhaustionSticky ==
  [][(Exhausted /\ DoRead) =>
       /\ last'.ok /\ last'.count = 0
       /\ last'.subs = <<>>
       /\ reader' = reader
       /\ out' = out]_vars

\* a non-empty body was drained and then read again with a non-empty buffer
StickyWitness ==
  /\ Exhausted
  /\ Len(out) > 0
  /\ last.op = "read" /\ last.n = MaxBuf /\ last.count = 0

(***************************************************************************)
(* C10  A read call with a zero-capacity buffer, in any state of the       *)
(* reader, returns 0 without error and changes nothing: the text block's   *)
(* position, the stream queue (its fields, their order, each header's      *)
(* position), the tail's position; and it reads no payload source.         *)
(***************************************************************************)
ZeroBufferNoOp ==
  [][Read(0) =>
       /\ last'.ok /\ last'.count = 0
       /\ last'.subs = <<>>
       /\ reader' = reader
       /\ out' = out]_vars

\* a zero-capacity read while a stream field's header is partly consumed
ZeroBufferWitness ==
  /\ phase = "prepared"
  /\ last.op = "read" /\ last.n = 0
  /\ reader.streams # <<>>
  /\ LET q == reader.streams[Len(reader.streams)]
     IN  0 < q.header.pos /\ q.header.pos < Len(q.header.buf)

(***************************************************************************)
(* C11  When a payload source reports an error partway through, the read   *)
(* call that met it returns the error, and no byte of the body is skipped  *)
(* or duplicated: if the caller goes on reading and the source stops       *)
(* failing, the bytes the successful read calls reported are, in all, the  *)
(* body that would have been produced had no error occurred.               *)
(***************************************************************************)
\* the reader with every payload source's errors taken away
WithoutErrors(r) ==
  [r EXCEPT !.streams =
     [j \in 1..Len(r.streams) |-> [r.streams[j] EXCEPT !.stream.errs = {}]]]

NoByteLostOnError ==
  /\ (last.op = "read" /\ \E j \in 1..Len(last.subs) : ~last.subs[j].ok)
       => ~last.ok
  /\ Exhausted =>
       \A o \in PreparedFieldsRead(WithoutErrors(reader0), BigBuf) :
         OutBytes = Bytes(o.written)

(***************************************************************************)
(* C12  prepare() empties the field set: right after it the field set      *)
(* holds no field, so a prepare() that follows with no add in between      *)
(* returns a reader whose body has no byte; the reader it returns encodes   *)
(* exactly the fields it drained (one queue entry per stream field, one    *)
(* text part per text field), and an add after it leaves that reader, and  *)
(* what it has reported, as they were.                                     *)
(***************************************************************************)
\* the text parts of the first i fields of fs, as the wire format has them
RECURSIVE WireTextParts(_, _, _)
WireTextParts(bnd, fs, i) ==
  IF i = 0 THEN <<>>
  ELSE WireTextParts(bnd, fs, i - 1)
         \o (IF fs[i].kind = "Text" THEN WirePart(bnd, fs[i]) ELSE <<>>)

PrepareDrainsFields ==
  [][/\ DoPrepare =>
          /\ fields' = <<>>
          /\ reader'.text_data.pos = 0
          /\ reader'.text_data.buf = WireTextParts(token', fields, Len(fields))
          /\ {reader'.streams[j].id : j \in 1..Len(reader'.streams)}
                = {i \in 1..Len(fields) : fields[i].kind = "Stream"}
          /\ Len(reader'.streams)
                = Cardinality({i \in 1..Len(fields) : fields[i].kind = "Stream"})
          /\ fields = <<>> =>
                \A o \in PreparedFieldsRead(reader', BigBuf) : o.ok /\ o.count = 0
     /\ (fields' # fields /\ fields' # <<>>) =>
          /\ reader' = reader
          /\ out' = out
          /\ \E f \in DOMAIN fields' : fields' = Append(fields, fields'[f])]_vars

\* one field was drained by a prepare(), a second prepare() followed with no
\* add in between, then a field was added and the reader read: no byte
SecondPrepareWitness ==
  /\ phase = "prepared"
  /\ nAdded = 2 /\ Len(fields) = 1
  /\ fields0 = <<>>
  /\ last.op = "read" /\ last.n = BigBuf /\ last.ok /\ last.count = 0

(***************************************************************************)
(* C13  Payloads are pulled on demand and never read ahead.  prepare()     *)
(* reads no byte of any payload source: the reader it returns holds each   *)
(* source as it was added.  A payload source is read only inside a read    *)
(* call, with room left in a non-empty buffer, once the text block and the *)
(* field's own header are fully consumed.  With sources that never fail,   *)
(* the bytes pulled from each queued payload source are as many as the     *)
(* bytes of that payload already reported: the reader buffers nothing.     *)
(***************************************************************************)
\* the bytes the first i sub-reads of a call returned
RECURSIVE SumK(_, _)
SumK(subs, i) == IF i = 0 THEN 0 ELSE SumK(subs, i - 1) + subs[i].k

NoReadAhead ==
  phase = "prepared" =>
    /\ \A j \in 1..Len(reader0.streams) :
         reader0.streams[j].stream = fields0[reader0.streams[j].id].stream
    /\ \A j \in 1..Len(reader.streams) :
         LET q == reader.streams[j] IN
           /\ q.stream.pos = Len(FieldOut(q.id)) - q.header.pos
           /\ q.stream.pos > 0 =>
                /\ cursor_at_end(reader.text_data)
                /\ cursor_at_end(q.header)
    /\ \A id \in 1..Len(fields0) :
         Len(FieldOut(id)) > 0 =>
           IsPrefix(FieldOut(id),
                    WireStreamHeader(token, fields0[id].name,
                                     fields0[id].filename, fields0[id].mime)
                      \o fields0[id].stream.data)
    /\ last.op = "read" =>
         /\ last.ok /\ last.count = SumK(last.subs, Len(last.subs))
         /\ \A k \in 1..Len(last.subs) :
              last.subs[k].part = "payload" =>
                /\ last.n > 0
                /\ SumK(last.subs, k - 1) < last.n
                /\ cursor_at_end(reader.text_data)
                /\ \A j \in 1..Len(reader.streams) :
                     reader.streams[j].id = last.subs[k].id =>
                       cursor_at_end(reader.streams[j].header)

\* a read call pulled the first of a payload's two bytes and returned it
OnDemandWitness ==
  /\ phase = "prepared"
  /\ last.op = "read" /\ last.n = 1 /\ last.count = 1
  /\ last.subs = <<Sub("payload", last.subs[1].id, TRUE, 1)>>
  /\ \E j \in 1..Len(reader.streams) :
       /\ reader.streams[j].id = last.subs[1].id
       /\ reader.streams[j].stream.pos = 1
       /\ Len(reader.streams[j].stream.data) = 2

(***************************************************************************)
(* C14  A read call with a non-empty buffer returns 0 only at permanent    *)
(* end-of-data: when it returns Ok(0), the text block is fully consumed,   *)
(* the stream queue is empty and the tail is fully consumed; made while    *)
(* the tail is not yet fully consumed, it returns a count of at least 1 or *)
(* an error.  Payload sources may stop early or fail.                      *)
(***************************************************************************)
\* the step is a read call: only a read leaves the field set alone and ends
\* with a read as the latest call
ReadReturned == last'.op = "read" /\ UNCHANGED <<fields, nAdded, phase>>

ZeroOnlyAtEnd ==
  [][(ReadReturned /\ last'.n > 0) =>
       /\ (last'.ok /\ last'.count = 0) =>
            /\ cursor_at_end(reader'.text_data)
            /\ reader'.streams = <<>>
            /\ cursor_at_end(reader'.end_boundary)
            /\ reader' = reader
       /\ ~cursor_at_end(reader.end_boundary) =>
            (~last'.ok \/ last'.count >= 1)]_vars

\* a body whose payload source failed once was read to its end, and a further
\* one-byte read returned 0
ZeroAtEndWitness ==
  /\ Exhausted
  /\ NumFailing(fields0) = 1
  /\ Len(out) > 0
  /\ last.op = "read" /\ last.n = 1 /\ last.ok /\ last.count = 0

(***************************************************************************)
(* C15  A read call fills the buffer until it is full or the body is       *)
(* exhausted: with sources that never fail, a call with a buffer of n > 0  *)
(* bytes returns a count below n only if the tail is fully consumed when   *)
(* it returns.  One call may so combine bytes of the text block, of        *)
(* several stream fields and of the tail.                                  *)
(***************************************************************************)
FillsUntilFullOrExhausted ==
  (last.op = "read" /\ last.count < last.n) =>
    /\ last.ok
    /\ Exhausted

\* one call returned a whole body: a text part, a stream field and the tail
CombinedReadWitness ==
  /\ Exhausted
  /\ last.op = "read" /\ last.n = BigBuf /\ last.ok
  /\ 0 < last.count /\ last.count < last.n
  /\ last.count = Len(out)
  /\ \E i, j, k \in 1..Len(last.subs) :
       /\ last.subs[i].part = "text" /\ last.subs[i].k > 0
       /\ last.subs[j].part = "payload" /\ last.subs[j].k > 0
       /\ last.subs[k].part = "tail" /\ last.subs[k].k > 0

(***************************************************************************)
(* C16  As stated: a single read call ends as soon as one sub-read (of the *)
(* text block, of a stream field or of the tail) returns a nonzero count,  *)
(* and returns that sub-read's count; no sub-read follows one that         *)
(* produced bytes.                                                         *)
(***************************************************************************)
EndsAtFirstNonzeroSubRead ==
  last.op = "read" =>
    /\ \A i \in 1..Len(last.subs) :
         last.subs[i].k > 0 => i = Len(last.subs)
    /\ (last.ok /\ last.subs # <<>>) =>
         last.count = last.subs[Len(last.subs)].k

(***************************************************************************)
(* C16, amended  A single read call goes on making sub-reads after one     *)
(* that produced bytes: every sub-read is made with room left in the       *)
(* buffer, only the last sub-read of a call can have failed, a call that   *)
(* returns Ok returns the sum of its sub-reads' counts and returns only    *)
(* with the buffer full or the tail fully consumed, and a call returns an  *)
(* error exactly when its last sub-read failed.                            *)
(***************************************************************************)
ReadAccumulates ==
  last.op = "read" =>
    /\ \A i \in 1..Len(last.subs) :
         /\ SumK(last.subs, i - 1) < last.n
         /\ i < Len(last.subs) => last.subs[i].ok
    /\ last.ok =>
         /\ last.count = SumK(last.subs, Len(last.subs))
         /\ last.count = last.n \/ Exhausted
    /\ ~last.ok <=> (last.subs # <<>> /\ ~last.subs[Len(last.subs)].ok)

\* one call made a sub-read that produced bytes and then two more that did
AccumulatesWitness ==
  /\ last.op = "read" /\ last.ok
  /\ Len(last.subs) >= 3
  /\ last.subs[1].k > 0 /\ last.subs[2].k > 0 /\ last.subs[3].k > 0
  /\ last.count > last.subs[1].k + last.subs[2].k

(***************************************************************************)
(* C17  A stream field leaves the queue only when it itself reports        *)
(* exhaustion: a read call removes a field from the queue if and only if a *)
(* sub-read of that field returned zero bytes without error.  After a      *)
(* sub-read that returned bytes or an error the field is back at the       *)
(* serving end of the queue, and every other queued field is as it was.    *)
(* A removed field is never read again.  Payload sources may stop early or *)
(* fail.                                                                   *)
(***************************************************************************)
QueueIds(r) == {r.streams[j].id : j \in 1..Len(r.streams)}

\* sub-read i of a call read the stream field with index id
ReadsField(subs, i, id) ==
  subs[i].part \in {"header", "payload"} /\ subs[i].id = id

\* sub-read i of a call found the stream field with index id exhausted
ZeroRead(subs, i, id) ==
  ReadsField(subs, i, id) /\ subs[i].ok /\ subs[i].k = 0

LeavesQueueOnlyOnZeroRead ==
  [][ReadReturned =>
       LET subs == last'.subs
           m    == Len(reader'.streams)
       IN  /\ m <= Len(reader.streams)
           /\ \A j \in 1..m : reader'.streams[j].id = reader.streams[j].id
           /\ \A j \in 1..(m - 1) : reader'.streams[j] = reader.streams[j]
           /\ \A id \in QueueIds(reader) :
                (id \notin QueueIds(reader'))
                  <=> \E i \in 1..Len(subs) : ZeroRead(subs, i, id)
           /\ \A i \in 1..Len(subs) :
                subs[i].part \in {"header", "payload"} =>
                  /\ subs[i].id \in QueueIds(reader)
                  /\ \A h \in 1..(i - 1) : ~ZeroRead(subs, h, subs[i].id)
                  /\ (~subs[i].ok \/ subs[i].k > 0) =>
                       /\ i < Len(subs) => ReadsField(subs, i + 1, subs[i].id)
                       /\ i = Len(subs) =>
                            /\ m > 0
                            /\ reader'.streams[m].id = subs[i].id]_vars

\* a call's sub-read of the later-added stream field failed; that field is
\* back at the serving end of the queue, above the untouched earlier one
PushedBackWitness ==
  /\ phase = "prepared"
  /\ last.op = "read" /\ ~last.ok
  /\ Len(reader.streams) = 2
  /\ reader.streams[2].id = last.subs[Len(last.subs)].id
  /\ reader.streams[2].stream.pos = 1
  /\ reader.streams[1] = reader0.streams[1]

(***************************************************************************)
(* C18  As stated: when a stream field's read reports zero bytes without   *)
(* error, the reader examines the same field again if it still has data,   *)
(* so a payload source that answers one read with zero bytes and has more  *)
(* bytes afterwards still gets all of its bytes into the body.             *)
(***************************************************************************)
AllPayloadBytesEmitted ==
  Exhausted =>
    \A id \in 1..Len(fields0) :
      IsStream(id) =>
        FieldOut(id) = WireStreamHeader(token, fields0[id].name,
                                        fields0[id].filename, fields0[id].mime)
                         \o fields0[id].stream.data

(***************************************************************************)
(* C18, amended  When a stream field's read reports zero bytes without     *)
(* error, the reader does not treat the stream queue as exhausted: it      *)
(* removes that field from the queue and, in the same call and without     *)
(* consuming destination space, goes on to another sub-read, of the next   *)
(* queued field or, with the queue empty, of the tail.  The removed field  *)
(* is not examined again: its part of the body is its header and the       *)
(* payload bytes before its first zero-byte read, and bytes its source     *)
(* holds beyond that are never emitted.  Sources never fail.               *)
(***************************************************************************)
ZeroReadDropsField ==
  /\ last.op = "read" =>
       \A i \in 1..Len(last.subs) :
         ZeroRead(last.subs, i, last.subs[i].id) =>
           /\ ~Queued(last.subs[i].id)
           /\ i < Len(last.subs)
           /\ ~ReadsField(last.subs, i + 1, last.subs[i].id)
           /\ last.subs[i + 1].part \in {"header", "tail"}
           /\ SumK(last.subs, i) < last.n
  /\ Exhausted =>
       \A id \in 1..Len(fields0) :
         IsStream(id) =>
           FieldOut(id) = WireStreamHeader(token, fields0[id].name,
                                           fields0[id].filename, fields0[id].mime)
                            \o UpToFirstZero(fields0[id].stream)

\* a source answered a read with zero bytes while holding one more byte; the
\* body was drained and that byte is not in it
DroppedOnZeroWitness ==
  /\ Exhausted
  /\ \E id \in 1..Len(fields0) :
       /\ IsStream(id)
       /\ fields0[id].stream.zeros = {1}
       /\ Len(fields0[id].stream.data) = 2
       /\ Len(FieldOut(id))
            = Len(WireStreamHeader(token, fields0[id].name,
                                   fields0[id].filename, fields0[id].mime)) + 1

(***************************************************************************)
(* C19  Single active source: in every state of the reader at most one of  *)
(* the text block, the entries of the stream queue and the tail is partly  *)
(* consumed.  If any queued stream field's header or payload has been read *)
(* the text block is fully consumed; if any byte of the tail has been read *)
(* the text block is fully consumed and the stream queue is empty; only    *)
(* the entry at the serving end of the queue can have a header position    *)
(* above zero, or a payload source that has been read.  Payload sources    *)
(* may stop early or fail.                                                 *)
(***************************************************************************)
PartlyConsumed(cursor) == 0 < cursor.pos /\ cursor.pos < Len(cursor.buf)

\* the queued field q has been read: its header, or its payload source
Touched(q) == q.header.pos > 0 \/ q.stream # fields0[q.id].stream

SingleActiveSource ==
  phase = "prepared" =>
    LET m == Len(reader.streams) IN
    /\ \A j \in 1..(m - 1) :
         /\ reader.streams[j].header.pos = 0
         /\ ~Touched(reader.streams[j])
    /\ (\E j \in 1..m : Touched(reader.streams[j])) =>
         cursor_at_end(reader.text_data)
    /\ reader.end_boundary.pos > 0 =>
         /\ cursor_at_end(reader.text_data)
         /\ m = 0
    /\ Cardinality({j \in 1..m : Touched(reader.streams[j])})
         + (IF PartlyConsumed(reader.text_data) THEN 1 ELSE 0)
         + (IF PartlyConsumed(reader.end_boundary) THEN 1 ELSE 0) <= 1

\* of two queued stream fields the later-added one has its header partly
\* read, the earlier-added one is as prepare() built it
ActiveSourceWitness ==
  /\ phase = "prepared"
  /\ Len(reader.streams) = 2
  /\ PartlyConsumed(reader.streams[2].header)
  /\ reader.streams[1] = reader0.streams[1]
  /\ last.op = "read" /\ last.count = MaxBuf

(***************************************************************************)
(* C20  Termination and progress.  Every read call returns after finitely  *)
(* many loop iterations: each iteration adds at least one byte to the      *)
(* call's count, or removes one field from the stream queue, or returns an *)
(* error, so a call makes no more sub-reads than the bytes it returns,     *)
(* plus the fields that were queued, plus one.  And with payload sources   *)
(* that are finite and at their end report a zero-byte read, a consumer    *)
(* that goes on calling read with non-empty buffers reaches the exhausted  *)
(* state, where every call returns 0.                                      *)
(***************************************************************************)
IterationProgress ==
  last.op = "read" =>
    /\ \A i \in 1..Len(last.subs) :
         \/ last.subs[i].ok /\ last.subs[i].k > 0
         \/ /\ ZeroRead(last.subs, i, last.subs[i].id)
            /\ ~Queued(last.subs[i].id)
            /\ \A h \in (i + 1)..Len(last.subs) :
                 ~ReadsField(last.subs, h, last.subs[i].id)
         \/ ~last.subs[i].ok /\ i = Len(last.subs) /\ ~last.ok
    /\ Len(last.subs) <= last.count + Len(reader0.streams) + 1

ReadsTerminateAndExhaust ==
  /\ []IterationProgress
  /\ (phase = "prepared" /\ ~Exhausted) ~> Exhausted

\* a body of two fields was drained by several calls, the last of them, with
\* a large buffer, dropping an exhausted stream field on its way to the tail
ProgressWitness ==
  /\ Exhausted
  /\ Len(fields0) = 2
  /\ last.op = "read" /\ last.n = BigBuf /\ last.ok
  /\ 0 < last.count /\ last.count < Len(out)
  /\ \E i \in 1..Len(last.subs) : ZeroRead(last.subs, i, last.subs[i].id)

====
